---- MODULE Spec2Model ----
(***************************************************************************)
(* A model of the record store (server/storage.ts, MemStorage), the        *)
(* simulated metric walk of the useMetrics hook and the stateless token    *)
(* layer (api/_lib auth) of the DreamAnalysis dashboard.                   *)
(*                                                                         *)
(* Strings of the program are TLA+ strings; the JavaScript values          *)
(* undefined and null are the markers Undefined and Null.  A Map is a      *)
(* sequence in insertion order (the iteration order of a JavaScript Map).  *)
(* randomUUID() is a fresh identifier, modelled by a counter.  Date.now()  *)
(* is the variable now, in milliseconds, which never runs backwards.       *)
(***************************************************************************)
EXTENDS Integers, Sequences, FiniteSets, TLC

VARIABLES
    healthMetrics,   \* MemStorage.healthMetrics, in insertion order
    dreamAnalyses,   \* MemStorage.dreamAnalyses, in insertion order
    aiChats,         \* MemStorage.aiChats, in insertion order
    userSettings,    \* MemStorage.userSettings, in insertion order
    nextId,          \* the next identifier randomUUID() hands out
    now,             \* Date.now(), milliseconds
    ret,             \* what the last store call returned
    writtenFor,      \* history: record id -> the userId the writing call was scoped to
    calls,           \* history: the number of updateUserSettings calls so far
    currentMetrics,  \* useMetrics: the currentMetrics state
    eegData,         \* useMetrics: the eegData state, its two waveform buffers
    ticks,           \* history: the number of updateMetrics ticks so far
    jwtSecret,       \* process.env.JWT_SECRET
    databaseUrl,     \* process.env.DATABASE_URL
    issued,          \* the tokens generateToken has returned, in order
    issuedAt,        \* history: Date.now() at each generateToken call that returned
    authRet,         \* what the last requireAuth call returned
    sent,            \* the responses written to the res of the last request
    advances,        \* history: the number of clock steps of the token layer
    thrown,          \* whether the last handler call let an exception escape
    request,         \* the request getAuthToken is applied to
    jar,             \* history: the cookies the request's cookie header was built from
    extracted,       \* what getAuthToken returned for request
    asyncCalls       \* the async calls started so far, each awaiting or done

storeVars == <<healthMetrics, dreamAnalyses, aiChats, userSettings, nextId, now, ret,
               writtenFor, calls>>

hookVars == <<currentMetrics, eegData, ticks>>

authVars == <<jwtSecret, databaseUrl, issued, issuedAt, authRet, sent, advances, thrown>>

extractVars == <<request, jar, extracted>>

callVars == <<asyncCalls>>

vars == <<storeVars, hookVars, authVars, extractVars, callVars>>

-----------------------------------------------------------------------------
(* Bounds of the model *)

MaxRecords == 3
MaxClock == 2
MaxLimit == 4
MaxUpdates == 3
MaxTicks == 7
MaxAdvances == 2
MaxSamples == 51
MaxRows == 2

-----------------------------------------------------------------------------
(* JavaScript values and library functions *)

Undefined == "<undefined>"
Null == "<null>"
NoReturn == [kind |-> "none"]

Min(a, b) == IF a < b THEN a ELSE b
Max(a, b) == IF a > b THEN a ELSE b

\* x is falsy: the left operand of || is replaced by the right one
Falsy(x) == x \in {Undefined, Null, ""}

\* a || b
JsOr(a, b) == IF Falsy(a) THEN b ELSE a

\* Array.prototype.slice(start, end): negative indices count from the end
JsSlice(s, start, end) ==
    LET n == Len(s)
        from == IF start < 0 THEN Max(n + start, 0) ELSE Min(start, n)
        to == IF end < 0 THEN Max(n + end, 0) ELSE Min(end, n)
    IN  SubSeq(s, from + 1, to)

\* { ...a, ...b }: the keys of both, b's value where both have the key
ObjectSpread(a, b) ==
    [k \in (DOMAIN a) \cup (DOMAIN b) |-> IF k \in DOMAIN b THEN b[k] ELSE a[k]]

\* m.key: undefined for a property the object does not have
Property(m, key) == IF key \in DOMAIN m THEN m[key] ELSE Undefined

-----------------------------------------------------------------------------
(* Inputs *)

\* the users records are created for and queried for
UserIds == {"A", "B"}

\* a userId nobody ever writes for
UnknownUser == "C"

\* the userId of an insert object: a user, the empty string, or no userId
InsertUserIds == UserIds \cup {"", Undefined}

\* the fields of InsertUserSettings: every column of user_settings but id
SettingsKeys == {"userId", "theme", "electrodeCount", "samplingRate",
                 "alertThresholds", "animationsEnabled"}

\* values a partial settings object may carry, per field
SettingsValues ==
    [userId |-> UserIds,
     theme |-> {"dark", "light"},
     electrodeCount |-> {"64", "128"},
     samplingRate |-> {"500", "1000"},
     alertThresholds |-> {"{}", "{hr:90}"},
     animationsEnabled |-> {"true", "false"}]

\* the field sets of the partial settings objects the model passes in: none,
\* each single field, and two pairs (a userId with a setting, two settings)
PartialShapes ==
    {{}} \cup {{k} : k \in SettingsKeys}
         \cup {{"userId", "theme"}, {"theme", "electrodeCount"}}

\* Partial<InsertUserSettings>: an object over some of the fields
Partials ==
    UNION {{p \in [K -> UNION {SettingsValues[k] : k \in K}] :
                \A k \in K : p[k] \in SettingsValues[k]} : K \in PartialShapes}

-----------------------------------------------------------------------------
(* MemStorage: queries *)

DefaultMetricsLimit == 50
DefaultDreamsLimit == 20
DefaultChatsLimit == 50

ByTimestampDesc(a, b) == b.timestamp - a.timestamp
ByTimestampAsc(a, b) == a.timestamp - b.timestamp

\* Array.prototype.sort(cmp), cmp one of the two comparators: stable; a goes
\* before b when cmp(a, b) < 0
JsSort(s, order) ==
    LET cmp(a, b) == IF order = "desc" THEN ByTimestampDesc(a, b) ELSE ByTimestampAsc(a, b)
        rank == [i \in 1..Len(s) |->
                    Cardinality({j \in 1..Len(s) :
                        \/ cmp(s[j], s[i]) < 0
                        \/ cmp(s[j], s[i]) = 0 /\ j < i})]
    IN  [k \in 1..Len(s) |-> s[CHOOSE i \in 1..Len(s) : rank[i] = k - 1]]

OfUser(records, userId) == SelectSeq(records, LAMBDA r : r.userId = userId)

getHealthMetrics_Tail(userId, limit) ==
    LET sorted == JsSort(OfUser(healthMetrics, userId), "desc")
    IN  JsSlice(sorted, 0 - limit, Len(sorted))

getHealthMetrics(userId, limit) ==
    JsSlice(JsSort(OfUser(healthMetrics, userId), "desc"), 0, limit)

getDreamAnalyses(userId, limit) ==
    JsSlice(JsSort(OfUser(dreamAnalyses, userId), "desc"), 0, limit)

getAiChats(userId, limit) ==
    LET sorted == JsSort(OfUser(aiChats, userId), "asc")
    IN  JsSlice(sorted, 0 - limit, Len(sorted))

\* Array.prototype.find: the first match, or undefined (here the empty sequence)
getUserSettings(userId) ==
    LET found == OfUser(userSettings, userId)
    IN  IF found = <<>> THEN <<>> ELSE <<found[1]>>

-----------------------------------------------------------------------------
(* MemStorage: writes *)

RecordCount == Len(healthMetrics) + Len(dreamAnalyses) + Len(aiChats)

NewRecord(insertUserId) ==
    [id |-> nextId, timestamp |-> now, userId |-> JsOr(insertUserId, Null)]

\* a create that stores its record under the key of the newest record
createHealthMetrics_Overwrites(insertUserId) ==
    /\ RecordCount < MaxRecords
    /\ healthMetrics' = IF healthMetrics = <<>>
                        THEN <<NewRecord(insertUserId)>>
                        ELSE [healthMetrics EXCEPT ![Len(healthMetrics)] =
                                                        NewRecord(insertUserId)]
    /\ nextId' = nextId + 1
    /\ ret' = NewRecord(insertUserId)
    /\ writtenFor' = writtenFor @@ (nextId :> insertUserId)
    /\ UNCHANGED <<dreamAnalyses, aiChats, userSettings, now, calls>>

createHealthMetrics(insertUserId) ==
    /\ RecordCount < MaxRecords
    /\ healthMetrics' = Append(healthMetrics, NewRecord(insertUserId))
    /\ nextId' = nextId + 1
    /\ ret' = NewRecord(insertUserId)
    /\ writtenFor' = writtenFor @@ (nextId :> insertUserId)
    /\ UNCHANGED <<dreamAnalyses, aiChats, userSettings, now, calls>>

createDreamAnalysis(insertUserId) ==
    /\ RecordCount < MaxRecords
    /\ dreamAnalyses' = Append(dreamAnalyses, NewRecord(insertUserId))
    /\ nextId' = nextId + 1
    /\ ret' = NewRecord(insertUserId)
    /\ writtenFor' = writtenFor @@ (nextId :> insertUserId)
    /\ UNCHANGED <<healthMetrics, aiChats, userSettings, now, calls>>

\* a create that stores its record under the key of the oldest chat record
createAiChat_Replaces(insertUserId) ==
    /\ RecordCount < MaxRecords
    /\ aiChats' = IF aiChats = <<>>
                  THEN <<NewRecord(insertUserId)>>
                  ELSE [aiChats EXCEPT ![1] = NewRecord(insertUserId)]
    /\ nextId' = nextId + 1
    /\ ret' = NewRecord(insertUserId)
    /\ writtenFor' = writtenFor @@ (nextId :> insertUserId)
    /\ UNCHANGED <<healthMetrics, dreamAnalyses, userSettings, now, calls>>

createAiChat(insertUserId) ==
    /\ RecordCount < MaxRecords
    /\ aiChats' = Append(aiChats, NewRecord(insertUserId))
    /\ nextId' = nextId + 1
    /\ ret' = NewRecord(insertUserId)
    /\ writtenFor' = writtenFor @@ (nextId :> insertUserId)
    /\ UNCHANGED <<healthMetrics, dreamAnalyses, userSettings, now, calls>>

\* the built-in defaults of updateUserSettings, before the two spreads
SettingsDefaults(id, userId) ==
    [id |-> id, userId |-> userId, theme |-> "dark", electrodeCount |-> "64",
     samplingRate |-> "500", alertThresholds |-> "{}", animationsEnabled |-> "true"]

SettingsMerge_ExistingLast(id, userId, existing, partialSettings) ==
    LET base == ObjectSpread(SettingsDefaults(id, userId), partialSettings)
    IN  IF existing = <<>> THEN base ELSE ObjectSpread(base, existing[1])

\* { id, userId, <defaults>, ...existing, ...partialSettings }
SettingsMerge(id, userId, existing, partialSettings) ==
    LET base == SettingsDefaults(id, userId)
        withExisting == IF existing = <<>> THEN base ELSE ObjectSpread(base, existing[1])
    IN  ObjectSpread(withExisting, partialSettings)

\* Map.set(id, settings): an existing key keeps its place, a new one is appended
MapSet(map, id, value) ==
    IF \E i \in 1..Len(map) : map[i].id = id
    THEN [i \in 1..Len(map) |-> IF map[i].id = id THEN value ELSE map[i]]
    ELSE Append(map, value)

updateUserSettings(userId, partialSettings) ==
    LET existing == getUserSettings(userId)
        id == IF existing = <<>> THEN nextId ELSE existing[1].id
        settings == SettingsMerge(id, userId, existing, partialSettings)
    IN  /\ calls < MaxUpdates
        /\ calls' = calls + 1
        /\ userSettings' = MapSet(userSettings, id, settings)
        /\ nextId' = IF existing = <<>> THEN nextId + 1 ELSE nextId
        /\ ret' = settings
        /\ writtenFor' = [i \in (DOMAIN writtenFor) \cup {id} |->
                            IF i = id THEN userId ELSE writtenFor[i]]
        /\ UNCHANGED <<healthMetrics, dreamAnalyses, aiChats, now>>

\* m[key] || null for an optional numeric field: null is the empty sequence,
\* a kept number n is <<n>>; 0 is falsy, as an absent field is
NumberOrNull(m, key) == IF key \in DOMAIN m /\ m[key] # 0 THEN <<m[key]>> ELSE <<>>

\* the object createHealthMetrics builds from its insert object: the spread
\* first, then id, timestamp and the three fields with a fallback
HealthMetricsOf(insertMetrics) ==
    ObjectSpread(insertMetrics,
                 [id |-> nextId, timestamp |-> now,
                  userId |-> JsOr(Property(insertMetrics, "userId"), Null),
                  dailySteps |-> NumberOrNull(insertMetrics, "dailySteps"),
                  sleepDuration |-> NumberOrNull(insertMetrics, "sleepDuration")])

\* createHealthMetrics with the optional fields of its insert object
createHealthMetricsOf(insertMetrics) ==
    /\ RecordCount < MaxRecords
    /\ healthMetrics' = Append(healthMetrics, HealthMetricsOf(insertMetrics))
    /\ nextId' = nextId + 1
    /\ ret' = HealthMetricsOf(insertMetrics)
    /\ writtenFor' = writtenFor @@ (nextId :> Property(insertMetrics, "userId"))
    /\ UNCHANGED <<dreamAnalyses, aiChats, userSettings, now, calls>>

\* updateUserSettings as the event loop runs it: the call runs up to its await
\* (getUserSettings has read the map by then) and its continuation runs in a
\* later turn; another call may run in between.
\* The call up to "await this.getUserSettings(userId)".
updateUserSettingsRead(userId, partialSettings) ==
    /\ calls < MaxUpdates
    /\ calls' = calls + 1
    /\ asyncCalls' = Append(asyncCalls,
                            [pc |-> "awaiting", userId |-> userId,
                             partialSettings |-> partialSettings,
                             existing |-> getUserSettings(userId)])
    /\ UNCHANGED <<healthMetrics, dreamAnalyses, aiChats, userSettings, nextId, now, ret,
                   writtenFor>>

\* The continuation of the call: existing?.id || randomUUID(), the merge, Map.set.
updateUserSettingsWrite(call) ==
    LET c == asyncCalls[call]
        id == IF c.existing = <<>> THEN nextId ELSE c.existing[1].id
        settings == SettingsMerge(id, c.userId, c.existing, c.partialSettings)
    IN  /\ c.pc = "awaiting"
        /\ asyncCalls' = [asyncCalls EXCEPT ![call].pc = "done"]
        /\ userSettings' = MapSet(userSettings, id, settings)
        /\ nextId' = IF c.existing = <<>> THEN nextId + 1 ELSE nextId
        /\ ret' = settings
        /\ writtenFor' = [i \in (DOMAIN writtenFor) \cup {id} |->
                            IF i = id THEN c.userId ELSE writtenFor[i]]
        /\ UNCHANGED <<healthMetrics, dreamAnalyses, aiChats, now, calls>>

\* the wall clock moves on between two calls
AdvanceClock ==
    /\ now < MaxClock
    /\ now' = now + 1
    /\ UNCHANGED <<healthMetrics, dreamAnalyses, aiChats, userSettings, nextId, ret, writtenFor,
                   calls>>

\* the value a read resolves to: an array, or the record find() gives (or none)
Returned(found) == [returned |-> found]

\* the reads as calls: each returns its list, or its record, and writes nothing
getHealthMetricsCall(userId, limit) ==
    /\ ret' = Returned(getHealthMetrics(userId, limit))
    /\ UNCHANGED <<healthMetrics, dreamAnalyses, aiChats, userSettings, nextId, now,
                   writtenFor, calls>>

getDreamAnalysesCall(userId, limit) ==
    /\ ret' = Returned(getDreamAnalyses(userId, limit))
    /\ UNCHANGED <<healthMetrics, dreamAnalyses, aiChats, userSettings, nextId, now,
                   writtenFor, calls>>

getAiChatsCall(userId, limit) ==
    /\ ret' = Returned(getAiChats(userId, limit))
    /\ UNCHANGED <<healthMetrics, dreamAnalyses, aiChats, userSettings, nextId, now,
                   writtenFor, calls>>

getUserSettingsCall(userId) ==
    /\ ret' = Returned(getUserSettings(userId))
    /\ UNCHANGED <<healthMetrics, dreamAnalyses, aiChats, userSettings, nextId, now,
                   writtenFor, calls>>

-----------------------------------------------------------------------------
(* useMetrics: the simulated metric walk *)

\* Math.floor(Math.random() * k): Math.random() is in [0, 1)
RandomFloor(k) == 0..(k - 1)

\* the draws the long walk takes of RandomFloor(k): its least and its largest
ExtremeDraws(k) == {d \in RandomFloor(k) : d = 0 \/ d = k - 1}

InitialMetrics ==
    [heartRate |-> 72, stressLevel |-> 34, sleepQuality |-> 87,
     neuralActivity |-> 92, dailySteps |-> 8247, sleepDuration |-> "7.38"]

Walk_Unclamped(prev, draw, delta, lo, hi) == prev + draw - delta

\* Math.max(lo, Math.min(hi, prev + Math.floor(Math.random() * k) - delta))
Walk(prev, draw, delta, lo, hi) == Max(lo, Min(hi, prev + draw - delta))

\* a step count that walks both ways, as the other four metrics do
NextSteps_Centred(prevSteps, draw) == IF prevSteps # 0 THEN prevSteps + draw - 25 ELSE 8247

\* Array.from({length: 50}, ...): the samples a waveform buffer holds
BufferLength == 50

\* a waveform sample is the number of its draw: the buffers start with the
\* draws 1..50 and tick t makes draw 50 + t
InitialBuffer == [i \in 1..BufferLength |-> i]

SlideBuffer_Grows(buffer, sample) == Append(buffer, sample)

\* [...prev.slice(1), sample]
SlideBuffer(buffer, sample) == Append(JsSlice(buffer, 1, Len(buffer)), sample)

\* prev.dailySteps ? prev.dailySteps + Math.floor(Math.random() * 50) : 8247
NextSteps(prevSteps, draw) == IF prevSteps # 0 THEN prevSteps + draw ELSE 8247

\* one tick of the 2 s interval: the setCurrentMetrics updater of updateMetrics
updateMetrics(dHeart, dStress, dSleep, dNeural, dSteps) ==
    /\ ticks < MaxTicks
    /\ ticks' = ticks + 1
    /\ currentMetrics' =
         [heartRate |-> Walk(currentMetrics.heartRate, dHeart, 3, 60, 100),
          stressLevel |-> Walk(currentMetrics.stressLevel, dStress, 5, 0, 100),
          sleepQuality |-> Walk(currentMetrics.sleepQuality, dSleep, 3, 0, 100),
          neuralActivity |-> Walk(currentMetrics.neuralActivity, dNeural, 4, 0, 100),
          dailySteps |-> NextSteps(currentMetrics.dailySteps, dSteps),
          sleepDuration |-> currentMetrics.sleepDuration]
    /\ eegData' =
         [alphaWaves |-> SlideBuffer(eegData.alphaWaves, BufferLength + ticks + 1),
          betaWaves |-> SlideBuffer(eegData.betaWaves, BufferLength + ticks + 1)]

-----------------------------------------------------------------------------
(* The token layer: strings *)

(* A string of a header is a sequence of symbols: the symbols ";", "=" and   *)
(* " " are those characters, every other symbol is a run of characters free  *)
(* of them ("Bearer", "auth_token", a token).  An absent header is           *)
(* AbsentString and the null a function returns for a string is NullString.  *)
AbsentString == <<Undefined>>
NullString == <<Null>>

\* !s for a string or an absent one
FalsyString(s) == s \in {AbsentString, NullString, <<>>}

\* String.prototype.startsWith
StartsWith(s, prefix) ==
    Len(s) >= Len(prefix) /\ SubSeq(s, 1, Len(prefix)) = prefix

\* String.prototype.substring(n)
Substring(s, n) == SubSeq(s, n + 1, Len(s))

\* String.prototype.split(sep), sep a single character
RECURSIVE Split(_, _)
Split(s, sep) ==
    IF \A i \in 1..Len(s) : s[i] # sep
    THEN <<s>>
    ELSE LET i == CHOOSE i \in 1..Len(s) : s[i] = sep /\ \A j \in 1..(i - 1) : s[j] # sep
         IN  <<SubSeq(s, 1, i - 1)>> \o Split(SubSeq(s, i + 1, Len(s)), sep)

\* String.prototype.trim
RECURSIVE Trim(_)
Trim(s) ==
    IF s # <<>> /\ s[1] = " " THEN Trim(Tail(s))
    ELSE IF s # <<>> /\ s[Len(s)] = " " THEN Trim(SubSeq(s, 1, Len(s) - 1))
    ELSE s

-----------------------------------------------------------------------------
(* The token layer: tokens *)

\* 'Bearer ', seven characters, two symbols
BearerPrefix == <<"Bearer", " ">>

\* the name of the cookie getAuthToken reads
AuthCookie == <<"auth_token">>

\* JWT_EXPIRES_IN = '7d', in seconds
ExpiresInSeconds == 604800

SevenDaysMs == ExpiresInSeconds * 1000

\* the symbols of the tokens generateToken returns, in the order it returns them
TokenNames == <<"t1", "t2">>

\* a well-formed token signed with a key that is not the server's
ForgedToken ==
    [userId |-> "u1", username |-> "alice", iat |-> 0,
     exp |-> 4 * ExpiresInSeconds, key |-> "not-the-secret"]

Payloads ==
    {[userId |-> "u1", username |-> "alice"], [userId |-> "u2", username |-> "bob"]}

\* the values of JWT_SECRET and DATABASE_URL a process may start with
SecretValues == {Undefined, "secret"}
UrlValues == {Undefined, "postgres://db"}

\* Math.floor(Date.now() / 1000)
EpochSeconds(ms) == ms \div 1000

\* getJWTSecret() throws
SecretMissing == Falsy(jwtSecret)

\* jwt.sign(payload, secret, { expiresIn: '7d' }): iat and exp in whole seconds
SignToken(payload, secret, at) ==
    [userId |-> payload.userId, username |-> payload.username,
     iat |-> EpochSeconds(at), exp |-> EpochSeconds(at) + ExpiresInSeconds,
     key |-> secret]

\* the tokens a string decodes to: none for a string that is no token
DecodeToken(token) ==
    IF Len(token) # 1 THEN <<>>
    ELSE IF \E i \in 1..Len(issued) : token[1] = TokenNames[i]
    THEN <<issued[CHOOSE i \in 1..Len(issued) : token[1] = TokenNames[i]]>>
    ELSE IF token[1] = "forged" THEN <<ForgedToken>>
    ELSE <<>>

\* jwt.verify(token, secret) throws: malformed, bad signature or expired
JwtVerifyThrows(token, secret, at) ==
    \/ DecodeToken(token) = <<>>
    \/ DecodeToken(token)[1].key # secret
    \/ EpochSeconds(at) >= DecodeToken(token)[1].exp

JwtPayload(t) == [userId |-> t.userId, username |-> t.username, iat |-> t.iat, exp |-> t.exp]

verifyToken_NoExpiry(token) ==
    IF SecretMissing \/ DecodeToken(token) = <<>> \/ DecodeToken(token)[1].key # jwtSecret
    THEN <<>>
    ELSE <<JwtPayload(DecodeToken(token)[1])>>

\* verifyToken: the payload, or null (the empty sequence) when anything throws
verifyToken(token) ==
    IF SecretMissing \/ JwtVerifyThrows(token, jwtSecret, now)
    THEN <<>>
    ELSE <<JwtPayload(DecodeToken(token)[1])>>

\* generateToken: throws without a secret, else returns the next token
generateToken(payload) ==
    /\ Len(issued) < Len(TokenNames)
    /\ IF SecretMissing
       THEN UNCHANGED <<issued, issuedAt>>
       ELSE /\ issued' = Append(issued, SignToken(payload, jwtSecret, now))
            /\ issuedAt' = Append(issuedAt, now)
    /\ UNCHANGED <<jwtSecret, databaseUrl, authRet, sent, advances, now>>

\* the reduce of getAuthToken: acc[key] = value, cookie after cookie
RECURSIVE ParseCookies(_, _)
ParseCookies(cookies, acc) ==
    IF cookies = <<>> THEN acc
    ELSE LET parts == Split(Trim(Head(cookies)), "=")
             key == parts[1]
             value == IF Len(parts) >= 2 THEN parts[2] ELSE AbsentString
         IN  ParseCookies(Tail(cookies), (key :> value) @@ acc)

getAuthToken(req) ==
    IF ~FalsyString(req.authorization) /\ StartsWith(req.authorization, BearerPrefix)
    THEN Substring(req.authorization, Len(BearerPrefix))
    ELSE IF ~FalsyString(req.cookie)
    THEN LET cookies == ParseCookies(Split(req.cookie, ";"), <<>>)
         IN  IF AuthCookie \in DOMAIN cookies /\ ~FalsyString(cookies[AuthCookie])
             THEN cookies[AuthCookie]
             ELSE NullString
    ELSE NullString

\* res.json of an array, and of null
JsonList(records) == [list |-> records]
JsonNull == [null |-> TRUE]

\* success(res, data, status): data is an object, JsonList or JsonNull
Success(data, status) == [status |-> status, body |-> data]

\* error(res, message, status): the body is { error: message }
ErrorResponse(message, status) == [status |-> status, error |-> message]

\* methodNotAllowed(res, allowedMethods): the Allow header lists allowedMethods
MethodNotAllowed(allowedMethods) ==
    [status |-> 405, error |-> "Method not allowed", allow |-> allowedMethods]

\* badRequest(res, message)
BadRequest(message) == [status |-> 400, error |-> message]

\* unauthorized(res, message)
Unauthorized(message) == [status |-> 401, error |-> message]

requireAuth_FallsThrough(req) ==
    LET token == getAuthToken(req)
        payload == IF FalsyString(token) THEN <<>> ELSE verifyToken(token)
    IN  /\ authRet' = payload
        /\ sent' = (IF FalsyString(token)
                    THEN <<Unauthorized("No authentication token provided")>>
                    ELSE <<>>)
                   \o (IF payload = <<>>
                       THEN <<Unauthorized("Invalid or expired token")>>
                       ELSE <<>>)
        /\ UNCHANGED <<jwtSecret, databaseUrl, issued, issuedAt, advances, now>>

\* a requireAuth that tells an expired token from an invalid one
requireAuth_TellsExpired(req) ==
    LET token == getAuthToken(req)
        decoded == DecodeToken(token)
        expired == /\ ~SecretMissing
                   /\ decoded # <<>>
                   /\ decoded[1].key = jwtSecret
                   /\ EpochSeconds(now) >= decoded[1].exp
    IN  IF FalsyString(token)
        THEN /\ authRet' = <<>>
             /\ sent' = <<Unauthorized("No authentication token provided")>>
             /\ UNCHANGED <<jwtSecret, databaseUrl, issued, issuedAt, advances, now>>
        ELSE /\ authRet' = verifyToken(token)
             /\ sent' = IF verifyToken(token) # <<>> THEN <<>>
                        ELSE IF expired THEN <<Unauthorized("Token expired")>>
                        ELSE <<Unauthorized("Invalid or expired token")>>
             /\ UNCHANGED <<jwtSecret, databaseUrl, issued, issuedAt, advances, now>>

requireAuth(req) ==
    LET token == getAuthToken(req)
    IN  IF FalsyString(token)
        THEN /\ authRet' = <<>>
             /\ sent' = <<Unauthorized("No authentication token provided")>>
             /\ UNCHANGED <<jwtSecret, databaseUrl, issued, issuedAt, advances, now>>
        ELSE /\ authRet' = verifyToken(token)
             /\ sent' = IF verifyToken(token) = <<>>
                        THEN <<Unauthorized("Invalid or expired token")>>
                        ELSE <<>>
             /\ UNCHANGED <<jwtSecret, databaseUrl, issued, issuedAt, advances, now>>

\* getDb() throws
DatabaseUrlMissing == Falsy(databaseUrl)

\* req.query.userId when it is no string (a parameter given more than once)
NotAString == "<array>"

\* the outcomes of a query the database runs
DbOutcomes == {"ok", "fails"}

\* api/health-metrics/[userId]: a userId that is no string is answered 400;
\* GET answers 200 with the user's samples, or 500 when getDb or the query
\* throws; another method is answered 405
healthMetricsHandler(method, userId, db) ==
    /\ sent' = IF userId = NotAString
               THEN <<ErrorResponse("Invalid user ID", 400)>>
               ELSE IF method # "GET"
               THEN <<MethodNotAllowed(<<"GET">>)>>
               ELSE IF DatabaseUrlMissing \/ db = "fails"
               THEN <<ErrorResponse("Failed to fetch health metrics", 500)>>
               ELSE <<Success(JsonList(getHealthMetrics(userId, 50)), 200)>>
    /\ UNCHANGED <<jwtSecret, databaseUrl, issued, issuedAt, authRet, advances, now>>

\* the steps the clock takes between two calls of the token layer
ClockSteps == {500, SevenDaysMs - 500, SevenDaysMs}

\* the clock of the model stops here
ClockLimit == 2 * SevenDaysMs

AdvanceBy(step) ==
    /\ advances < MaxAdvances
    /\ now + step <= ClockLimit
    /\ advances' = advances + 1
    /\ now' = now + step
    /\ UNCHANGED <<jwtSecret, databaseUrl, issued, issuedAt, authRet, sent>>

\* the requests requireAuth is called with
TokenStrings == {<<"t1">>, <<"t2">>, <<"forged">>, <<"junk">>, <<>>}

AuthorizationHeaders == {BearerPrefix \o t : t \in TokenStrings}

CookieHeaders ==
    {AbsentString, <<"sid", "=", "v">>}
        \cup {AuthCookie \o <<"=">> \o t : t \in TokenStrings}
        \cup {<<"sid", "=", "v", ";", " ">> \o AuthCookie \o <<"=">> \o <<"t2">>}

\* a token in the Authorization header, with or without a cookie of another
\* token, or no such header (or one that is not a Bearer one) and any cookies
AuthRequests ==
    [authorization : AuthorizationHeaders,
     cookie : {AbsentString, AuthCookie \o <<"=">> \o <<"t1">>}]
        \cup [authorization : {AbsentString, <<"Basic", " ", "t1">>}, cookie : CookieHeaders]

-----------------------------------------------------------------------------
(* The export *)

\* Array.prototype.join(sep) over texts; a text is a sequence of symbols
RECURSIVE Join(_, _)
Join(texts, sep) ==
    IF texts = <<>> THEN <<>>
    ELSE IF Len(texts) = 1 THEN texts[1]
    ELSE texts[1] \o sep \o Join(Tail(texts), sep)

\* the text join gives an element: nothing for null and undefined
ValueText(v) == IF v \in {Null, Undefined} THEN <<>> ELSE <<v>>

\* the keys of a csvData object, in the order the object literal gives them
CsvKeys ==
    <<"timestamp", "heartRate", "stressLevel", "sleepQuality", "neuralActivity",
      "dailySteps", "sleepDuration">>

\* Object.values of the csvData object of sample m
CsvValues(m) ==
    <<ToString(m.timestamp), Property(m, "heartRate"), Property(m, "stressLevel"),
      Property(m, "sleepQuality"), Property(m, "neuralActivity"),
      Property(m, "dailySteps"), Property(m, "sleepDuration")>>

\* Object.keys(row).join(',')
CsvHeader == Join([i \in 1..Len(CsvKeys) |-> <<CsvKeys[i]>>], <<",">>)

\* Object.values(row).join(',')
CsvLine(m) == Join([i \in 1..Len(CsvKeys) |-> ValueText(CsvValues(m)[i])], <<",">>)

\* res.send(text) after the two setHeader calls
SendCsv(text) == [status |-> 200, contentType |-> "text/csv", text |-> text]

\* GET /api/export/:userId of registerRoutes: the header is taken from
\* csvData[0] || {}, so it is the empty text when there is no sample
exportRoute(userId) ==
    LET metrics == getHealthMetrics(userId, DefaultMetricsLimit)
        csvHeader == IF metrics = <<>> THEN <<>> ELSE CsvHeader
        csvRows == [i \in 1..Len(metrics) |-> CsvLine(metrics[i])]
        csvContent == Join(<<csvHeader>> \o csvRows, <<"\n">>)
    IN  /\ sent' = <<SendCsv(csvContent)>>
        /\ thrown' = FALSE

\* api/export/[userId]: the samples are selected newest first, with no limit
exportHandler(method, userId, db) ==
    LET metrics == JsSort(OfUser(healthMetrics, userId), "desc")
        csvRows == [i \in 1..Len(metrics) |-> CsvLine(metrics[i])]
        csvContent == Join(<<CsvHeader>> \o csvRows, <<"\n">>)
    IN  /\ sent' = IF userId = NotAString
                   THEN <<ErrorResponse("Invalid user ID", 400)>>
                   ELSE IF method # "GET"
                   THEN <<MethodNotAllowed(<<"GET">>)>>
                   ELSE IF DatabaseUrlMissing \/ db = "fails"
                   THEN <<ErrorResponse("Failed to export data", 500)>>
                   ELSE IF metrics = <<>>
                   THEN <<SendCsv(<<"No data available">>)>>
                   ELSE <<SendCsv(csvContent)>>
        /\ thrown' = FALSE

-----------------------------------------------------------------------------
(* The write routes of registerRoutes *)

\* what the analysis collaborator does with a request: it answers, the call
\* rejects, or it answers with content that is no JSON
AiOutcomes == {"ok", "fails", "unparseable"}

\* a request without a body: req.body is undefined
NoBody == [body |-> "none"]

\* the bodies of POST /api/health-metrics: one insertHealthMetricsSchema
\* rejects, or one it accepts, with or without a userId (the column is nullable)
MetricsBodies == {[valid |-> FALSE]} \cup {[valid |-> TRUE, userId |-> u] : u \in InsertUserIds}

\* the bodies of POST /api/dream-analysis and POST /api/ai-chat: none, or an
\* object with or without a userId and a text (dreamText, message)
TextBodies == {NoBody} \cup [userId : InsertUserIds, text : {"text", Undefined}]

\* the time a handler spends awaiting the collaborator, in clock steps
Elapsed == {0, 1}

\* one entry of the emotions array of the collaborator's JSON
Emotion(emotion, intensity) == [emotion |-> emotion, intensity |-> intensity]

\* JSON.parse of the content the collaborator answers a dream with: the model
\* is asked for { symbols, emotions: { emotion, intensity }[], analysis } and
\* nothing checks what it sends; an object may lack the emotions
AnalysisReplies ==
    {[analysis |-> "text"],
     [analysis |-> "text", emotions |-> <<Emotion("fear", 10)>>],
     [analysis |-> "text", emotions |-> <<Emotion("fear", 0), Emotion("joy", 11)>>]}

\* m[key] || fallback, for a property that is an array (truthy) or not there
PropertyOr(m, key, fallback) == IF key \in DOMAIN m THEN m[key] ELSE fallback

\* POST /api/health-metrics
postHealthMetricsRoute(body) ==
    IF ~body.valid
    THEN /\ sent' = <<ErrorResponse("Invalid health metrics data", 400)>>
         /\ UNCHANGED storeVars
    ELSE /\ createHealthMetrics(body.userId)
         /\ sent' = <<Success(ret', 200)>>

\* POST /api/dream-analysis: the record is created after the collaborator has
\* answered and its content has been parsed
postDreamAnalysisRoute(body, ai, elapsed) ==
    /\ now + elapsed <= MaxClock
    /\ IF body = NoBody \/ ai # "ok"
       THEN /\ sent' = <<ErrorResponse("Failed to analyze dream", 500)>>
            /\ now' = IF body = NoBody THEN now ELSE now + elapsed
            /\ UNCHANGED <<healthMetrics, dreamAnalyses, aiChats, userSettings, nextId,
                           ret, writtenFor, calls>>
       ELSE \E analysis \in AnalysisReplies :
            LET created == [id |-> nextId, timestamp |-> now + elapsed,
                            userId |-> JsOr(body.userId, Null),
                            emotions |-> PropertyOr(analysis, "emotions", <<>>)]
            IN  /\ RecordCount < MaxRecords
                /\ now' = now + elapsed
                /\ dreamAnalyses' = Append(dreamAnalyses, created)
                /\ nextId' = nextId + 1
                /\ ret' = created
                /\ writtenFor' = writtenFor @@ (nextId :> body.userId)
                /\ sent' = <<Success(created, 200)>>
                /\ UNCHANGED <<healthMetrics, aiChats, userSettings, calls>>

\* POST /api/ai-chat: the user's message is created, then the collaborator is
\* called, then its answer is created; the answer is used as it is, parsed or not
postAiChatRoute(body, ai, elapsed) ==
    /\ now + elapsed <= MaxClock
    /\ IF body = NoBody
       THEN /\ sent' = <<ErrorResponse("Failed to process chat message", 500)>>
            /\ UNCHANGED storeVars
       ELSE LET userChat == [id |-> nextId, timestamp |-> now,
                             userId |-> JsOr(body.userId, Null)]
                aiChat == [id |-> nextId + 1, timestamp |-> now + elapsed,
                           userId |-> JsOr(body.userId, Null)]
            IN  /\ now' = now + elapsed
                /\ UNCHANGED <<healthMetrics, dreamAnalyses, userSettings, calls>>
                /\ IF ai = "fails"
                   THEN /\ RecordCount < MaxRecords
                        /\ aiChats' = Append(aiChats, userChat)
                        /\ nextId' = nextId + 1
                        /\ ret' = getHealthMetrics(body.userId, 5)
                        /\ writtenFor' = writtenFor @@ (nextId :> body.userId)
                        /\ sent' = <<ErrorResponse("Failed to process chat message", 500)>>
                   ELSE /\ RecordCount + 1 < MaxRecords
                        /\ aiChats' = Append(Append(aiChats, userChat), aiChat)
                        /\ nextId' = nextId + 2
                        /\ ret' = aiChat
                        /\ writtenFor' = writtenFor @@ (nextId :> body.userId)
                                                     @@ ((nextId + 1) :> body.userId)
                        /\ sent' = <<Success(aiChat, 200)>>

\* POST /api/ai-chat as the event loop runs it: the handler runs up to the
\* await of the collaborator, other requests are handled meanwhile, and its
\* continuation runs when the collaborator has answered or the call has failed.
\* A chat record: createAiChat of { userId, message, isUser }.
ChatRecord(userId, isUser) ==
    [id |-> nextId, timestamp |-> now, userId |-> JsOr(userId, Null), isUser |-> isUser]

\* a request that has been given no response yet
NoResponse == [status |-> 0]

\* The handler up to "await openai.chat.completions.create(...)": the user's
\* message is stored; a request without a body is answered 500 at once.
postAiChatStart(body) ==
    IF body = NoBody
    THEN /\ asyncCalls' = Append(asyncCalls,
                [pc |-> "done", body |-> body, userChat |-> NoReturn,
                 response |-> ErrorResponse("Failed to process chat message", 500)])
         /\ UNCHANGED storeVars
    ELSE /\ asyncCalls' = Append(asyncCalls,
                [pc |-> "awaiting", body |-> body,
                 userChat |-> ChatRecord(body.userId, TRUE), response |-> NoResponse])
         /\ aiChats' = Append(aiChats, ChatRecord(body.userId, TRUE))
         /\ nextId' = nextId + 1
         /\ ret' = ChatRecord(body.userId, TRUE)
         /\ writtenFor' = writtenFor @@ (nextId :> body.userId)
         /\ UNCHANGED <<healthMetrics, dreamAnalyses, userSettings, now, calls>>

\* a continuation that stores the answer ahead of every stored message
postAiChatFinish_AnswerFirst(call, ai) ==
    LET c == asyncCalls[call]
        aiChat == ChatRecord(c.body.userId, FALSE)
    IN  /\ c.pc = "awaiting"
        /\ IF ai = "fails"
           THEN /\ asyncCalls' = [asyncCalls EXCEPT ![call].pc = "done", ![call].response =
                                    ErrorResponse("Failed to process chat message", 500)]
                /\ UNCHANGED storeVars
           ELSE /\ asyncCalls' = [asyncCalls EXCEPT ![call].pc = "done",
                                                   ![call].response = Success(aiChat, 200)]
                /\ aiChats' = <<aiChat>> \o aiChats
                /\ nextId' = nextId + 1
                /\ ret' = aiChat
                /\ writtenFor' = writtenFor @@ (nextId :> c.body.userId)
                /\ UNCHANGED <<healthMetrics, dreamAnalyses, userSettings, now, calls>>

\* The continuation: the collaborator's call has thrown (500), or its answer
\* is stored and sent; an answer that is no JSON is used as it is.
postAiChatFinish(call, ai) ==
    LET c == asyncCalls[call]
        aiChat == ChatRecord(c.body.userId, FALSE)
    IN  /\ c.pc = "awaiting"
        /\ IF ai = "fails"
           THEN /\ asyncCalls' = [asyncCalls EXCEPT ![call].pc = "done", ![call].response =
                                    ErrorResponse("Failed to process chat message", 500)]
                /\ UNCHANGED storeVars
           ELSE /\ asyncCalls' = [asyncCalls EXCEPT ![call].pc = "done",
                                                   ![call].response = Success(aiChat, 200)]
                /\ aiChats' = Append(aiChats, aiChat)
                /\ nextId' = nextId + 1
                /\ ret' = aiChat
                /\ writtenFor' = writtenFor @@ (nextId :> c.body.userId)
                /\ UNCHANGED <<healthMetrics, dreamAnalyses, userSettings, now, calls>>

-----------------------------------------------------------------------------
(* The serverless handlers *)

\* the methods of the requests the handlers are sent
Methods == {"GET", "POST", "PUT", "DELETE"}

\* the row an insert of a metric, dream or chat creates: the database gives it
\* its id and its timestamp, and a userId that is not given is NULL
DbRow(userId) ==
    [id |-> nextId, timestamp |-> now,
     userId |-> IF userId = Undefined THEN Null ELSE userId]

\* the rows of the four tables
RowCount == RecordCount + Len(userSettings)

\* the handler changes no table
NoWrite ==
    UNCHANGED <<healthMetrics, dreamAnalyses, aiChats, userSettings, nextId, now, ret,
                writtenFor, calls>>

\* api/health-metrics/index: POST validates the body, then inserts it
createHealthMetricsHandler(method, body, db) ==
    /\ thrown' = FALSE
    /\ IF method # "POST"
       THEN sent' = <<MethodNotAllowed(<<"POST">>)>> /\ NoWrite
       ELSE IF ~body.valid
       THEN sent' = <<BadRequest("Invalid health metrics data")>> /\ NoWrite
       ELSE IF DatabaseUrlMissing \/ db = "fails"
       THEN sent' = <<ErrorResponse("Failed to create health metrics", 500)>> /\ NoWrite
       ELSE /\ RowCount < MaxRows
            /\ healthMetrics' = Append(healthMetrics, DbRow(body.userId))
            /\ nextId' = nextId + 1
            /\ writtenFor' = writtenFor @@ (nextId :> body.userId)
            /\ sent' = <<Success(DbRow(body.userId), 201)>>
            /\ UNCHANGED <<dreamAnalyses, aiChats, userSettings, now, ret, calls>>

\* api/dream-analysis/[userId]: the user's analyses, newest first, 20 at most
dreamAnalysesHandler(method, userId, db) ==
    /\ thrown' = FALSE
    /\ NoWrite
    /\ sent' = IF userId = NotAString
               THEN <<ErrorResponse("Invalid user ID", 400)>>
               ELSE IF method # "GET"
               THEN <<MethodNotAllowed(<<"GET">>)>>
               ELSE IF DatabaseUrlMissing \/ db = "fails"
               THEN <<ErrorResponse("Failed to fetch dream analyses", 500)>>
               ELSE <<Success(JsonList(getDreamAnalyses(userId, 20)), 200)>>

\* api/ai-chat/[userId]: the user's messages, newest first, 50 at most
aiChatsHandler(method, userId, db) ==
    /\ thrown' = FALSE
    /\ NoWrite
    /\ sent' = IF userId = NotAString
               THEN <<ErrorResponse("Invalid user ID", 400)>>
               ELSE IF method # "GET"
               THEN <<MethodNotAllowed(<<"GET">>)>>
               ELSE IF DatabaseUrlMissing \/ db = "fails"
               THEN <<ErrorResponse("Failed to fetch chat history", 500)>>
               ELSE <<Success(JsonList(JsSlice(JsSort(OfUser(aiChats, userId), "desc"),
                                               0, 50)), 200)>>

\* api/dream-analysis/index: POST asks the collaborator, parses its content,
\* then inserts the analysis
createDreamAnalysisHandler(method, body, ai, db) ==
    /\ thrown' = FALSE
    /\ IF method # "POST"
       THEN sent' = <<MethodNotAllowed(<<"POST">>)>> /\ NoWrite
       ELSE IF body = NoBody
       THEN sent' = <<ErrorResponse("Failed to analyze dream", 500)>> /\ NoWrite
       ELSE IF Falsy(body.text) \/ Falsy(body.userId)
       THEN sent' = <<BadRequest("Missing dreamText or userId")>> /\ NoWrite
       ELSE IF ai # "ok" \/ DatabaseUrlMissing \/ db = "fails"
       THEN sent' = <<ErrorResponse("Failed to analyze dream", 500)>> /\ NoWrite
       ELSE \E analysis \in AnalysisReplies :
            LET newAnalysis ==
                    ObjectSpread(DbRow(body.userId),
                                 [emotions |-> PropertyOr(analysis, "emotions", <<>>)])
            IN
            /\ RowCount < MaxRows
            /\ dreamAnalyses' = Append(dreamAnalyses, newAnalysis)
            /\ nextId' = nextId + 1
            /\ writtenFor' = writtenFor @@ (nextId :> body.userId)
            /\ sent' = <<Success(newAnalysis, 201)>>
            /\ UNCHANGED <<healthMetrics, aiChats, userSettings, now, ret, calls>>

\* the queries of the chat handler, in order: the insert of the user's
\* message, the select of the recent metrics, the insert of the answer
ChatQueries == <<"insert message", "select metrics", "insert answer">>

\* api/ai-chat/index: failAt is the first query that fails, 0 when none does
createAiChatHandler(method, body, ai, failAt) ==
    /\ thrown' = FALSE
    /\ IF method # "POST"
       THEN sent' = <<MethodNotAllowed(<<"POST">>)>> /\ NoWrite
       ELSE IF body = NoBody
       THEN sent' = <<ErrorResponse("Failed to process chat message", 500)>> /\ NoWrite
       ELSE IF Falsy(body.text) \/ Falsy(body.userId)
       THEN sent' = <<BadRequest("Missing message or userId")>> /\ NoWrite
       ELSE IF DatabaseUrlMissing \/ failAt = 1
       THEN sent' = <<ErrorResponse("Failed to process chat message", 500)>> /\ NoWrite
       ELSE LET userChat == DbRow(body.userId)
                aiChat == [DbRow(body.userId) EXCEPT !.id = nextId + 1]
            IN  /\ UNCHANGED <<healthMetrics, dreamAnalyses, userSettings, now, ret, calls>>
                /\ IF failAt \in {2, 3} \/ ai = "fails"
                   THEN /\ RowCount < MaxRows
                        /\ aiChats' = Append(aiChats, userChat)
                        /\ nextId' = nextId + 1
                        /\ writtenFor' = writtenFor @@ (nextId :> body.userId)
                        /\ sent' = <<ErrorResponse("Failed to process chat message", 500)>>
                   ELSE /\ RowCount + 1 < MaxRows
                        /\ aiChats' = Append(Append(aiChats, userChat), aiChat)
                        /\ nextId' = nextId + 2
                        /\ writtenFor' = writtenFor @@ (nextId :> body.userId)
                                                     @@ ((nextId + 1) :> body.userId)
                        /\ sent' = <<Success(aiChat, 201)>>

\* api/analyze-mood: POST asks the collaborator and answers with its parsed
\* content; nothing is stored
analyzeMoodHandler(method, body, ai) ==
    /\ thrown' = FALSE
    /\ NoWrite
    /\ sent' = IF method # "POST"
               THEN <<MethodNotAllowed(<<"POST">>)>>
               ELSE IF body = NoBody
               THEN <<ErrorResponse("Failed to analyze mood", 500)>>
               ELSE IF Falsy(body.text)
               THEN <<BadRequest("Missing text to analyze")>>
               ELSE IF ai # "ok"
               THEN <<ErrorResponse("Failed to analyze mood", 500)>>
               ELSE <<Success([mood |-> "calm"], 200)>>

\* the columns the database fills in when an insert leaves them out
DbSettingsDefaults(id) ==
    [id |-> id, userId |-> Null, theme |-> "dark", electrodeCount |-> "64",
     samplingRate |-> "500", alertThresholds |-> Null, animationsEnabled |-> "true"]

\* the bodies of POST and PUT /api/settings/:userId: one insertUserSettingsSchema
\* rejects, or a partial settings object over userId and theme
SettingsBodies ==
    {[valid |-> FALSE]}
        \cup {[valid |-> TRUE, partial |-> p] :
                 p \in {q \in Partials : DOMAIN q \subseteq {"userId", "theme"}}}

\* the queries of a settings write, in order: the select of the existing row,
\* then the update or the insert
SettingsQueries == <<"select existing", "update or insert">>

\* user_id is unique: a write that would leave two rows with one userId fails
UniqueUserIds(rows) ==
    \A i, j \in 1..Len(rows) : i # j => rows[i].userId # rows[j].userId

\* api/settings/[userId]: getDb() is called before the method is looked at and
\* outside every try block
settingsHandler(method, userId, body, failAt) ==
    LET found == OfUser(userSettings, userId)
        updated == [i \in 1..Len(userSettings) |->
                      IF userSettings[i].userId = userId
                      THEN ObjectSpread(userSettings[i], body.partial)
                      ELSE userSettings[i]]
        inserted == ObjectSpread(DbSettingsDefaults(nextId),
                                 ObjectSpread(body.partial, [userId |-> userId]))
    IN  IF userId = NotAString
        THEN sent' = <<ErrorResponse("Invalid user ID", 400)>> /\ thrown' = FALSE /\ NoWrite
        ELSE IF DatabaseUrlMissing
        THEN sent' = <<>> /\ thrown' = TRUE /\ NoWrite
        ELSE /\ thrown' = FALSE
             /\ IF method = "GET"
                THEN /\ NoWrite
                     /\ sent' = IF failAt # 0
                                THEN <<ErrorResponse("Failed to fetch settings", 500)>>
                                ELSE IF found = <<>> THEN <<Success(JsonNull, 200)>>
                                ELSE <<Success(found[1], 200)>>
                ELSE IF method \notin {"POST", "PUT"}
                THEN sent' = <<MethodNotAllowed(<<"GET", "POST", "PUT">>)>> /\ NoWrite
                ELSE IF ~body.valid
                THEN sent' = <<BadRequest("Invalid settings data")>> /\ NoWrite
                ELSE IF failAt # 0 \/ (found # <<>> /\ ~UniqueUserIds(updated))
                THEN sent' = <<ErrorResponse("Failed to update settings", 500)>> /\ NoWrite
                ELSE IF found # <<>>
                THEN /\ userSettings' = updated
                     /\ sent' = <<Success(ObjectSpread(found[1], body.partial), 200)>>
                     /\ UNCHANGED <<healthMetrics, dreamAnalyses, aiChats, nextId, now,
                                    ret, writtenFor, calls>>
                ELSE /\ RowCount < MaxRows
                     /\ userSettings' = Append(userSettings, inserted)
                     /\ nextId' = nextId + 1
                     /\ writtenFor' = writtenFor @@ (nextId :> userId)
                     /\ sent' = <<Success(inserted, 200)>>
                     /\ UNCHANGED <<healthMetrics, dreamAnalyses, aiChats, now, ret, calls>>

-----------------------------------------------------------------------------
(* The record routes of the serverless deployment *)

\* the record routes, by the file that serves each
RecordRoutes ==
    {"health-metrics/[userId]", "health-metrics/index", "dream-analysis/[userId]",
     "dream-analysis/index", "ai-chat/[userId]", "ai-chat/index", "settings/[userId]",
     "export/[userId]"}

\* the handler of a route applied to a request: each handler reads the
\* method, the userId of the path and the body of the request, and nothing else
route(name, req, ai, db) ==
    LET failAt == IF db = "fails" THEN 1 ELSE 0
    IN  CASE name = "health-metrics/[userId]" ->
                /\ healthMetricsHandler(req.method, req.userId, db)
                /\ thrown' = FALSE
                /\ UNCHANGED <<healthMetrics, dreamAnalyses, aiChats, userSettings, nextId,
                               ret, writtenFor, calls>>
          [] name = "health-metrics/index" ->
                createHealthMetricsHandler(req.method, req.body, db)
          [] name = "dream-analysis/[userId]" ->
                dreamAnalysesHandler(req.method, req.userId, db)
          [] name = "dream-analysis/index" ->
                createDreamAnalysisHandler(req.method, req.body, ai, db)
          [] name = "ai-chat/[userId]" ->
                aiChatsHandler(req.method, req.userId, db)
          [] name = "ai-chat/index" ->
                createAiChatHandler(req.method, req.body, ai, failAt)
          [] name = "settings/[userId]" ->
                settingsHandler(req.method, req.userId, req.body, failAt)
          [] name = "export/[userId]" ->
                exportHandler(req.method, req.userId, db) /\ UNCHANGED storeVars

\* a deployment that lets a request through to its handler only with a token
\* verifyToken accepts
serve_RequiresAuth(name, req, ai, db) ==
    LET token == getAuthToken(req)
    IN  IF FalsyString(token) \/ verifyToken(token) = <<>>
        THEN /\ sent' = <<Unauthorized("Invalid or expired token")>>
             /\ thrown' = FALSE
             /\ NoWrite
        ELSE route(name, req, ai, db)

\* the platform calls the handler of the route with the request: nothing runs
\* before the handler, and no handler calls requireAuth
serve(name, req, ai, db) == route(name, req, ai, db)

-----------------------------------------------------------------------------
(* Specifications *)

StoreInit ==
    /\ healthMetrics = <<>>
    /\ dreamAnalyses = <<>>
    /\ aiChats = <<>>
    /\ userSettings = <<>>
    /\ nextId = 1
    /\ now = 0
    /\ ret = NoReturn
    /\ writtenFor = <<>>
    /\ calls = 0

HookInit ==
    /\ currentMetrics = InitialMetrics
    /\ eegData = [alphaWaves |-> InitialBuffer, betaWaves |-> InitialBuffer]
    /\ ticks = 0

\* a process that has done nothing yet, with both values configured
AuthIdle ==
    /\ jwtSecret = "secret"
    /\ databaseUrl = "postgres://db"
    /\ issued = <<>>
    /\ issuedAt = <<>>
    /\ authRet = <<>>
    /\ sent = <<>>
    /\ advances = 0
    /\ thrown = FALSE

\* a process start: the environment holds either value or not
AuthInit ==
    /\ jwtSecret \in SecretValues
    /\ databaseUrl \in UrlValues
    /\ issued = <<>>
    /\ issuedAt = <<>>
    /\ authRet = <<>>
    /\ sent = <<>>
    /\ advances = 0
    /\ thrown = FALSE

Pending == <<"<pending>">>

ExtractIdle ==
    /\ request = [authorization |-> AbsentString, cookie |-> AbsentString]
    /\ jar = <<>>
    /\ extracted = Pending

\* the cookies a request may carry: a name, and a value unless there is no "="
CookieValues == {<<>>, <<"t1">>, <<"t2">>, <<"t1", "=">>}

CookiePairs == [name : {"auth_token", "sid"}, value : CookieValues \cup {AbsentString}]

Jars == {<<>>} \cup {<<c>> : c \in CookiePairs}
               \cup {<<c, d>> : c \in CookiePairs, d \in CookiePairs}

RenderCookie(c) ==
    <<c.name>> \o (IF c.value = AbsentString THEN <<>> ELSE <<"=">> \o c.value)

\* the cookie header of a jar: the cookies joined by sep; no header for no cookie
RenderJar(j, sep) ==
    IF j = <<>> THEN AbsentString
    ELSE IF Len(j) = 1 THEN RenderCookie(j[1])
    ELSE RenderCookie(j[1]) \o sep \o RenderCookie(j[2])

ExtractAuthorizations ==
    {AbsentString, <<>>, BearerPrefix, BearerPrefix \o <<"t2">>, <<"Bearer", "t2">>,
     <<"bearer", " ", "t2">>, <<"Basic", " ", "t2">>}

ExtractInit ==
    /\ jar \in Jars
    /\ \E a \in ExtractAuthorizations, sep \in {<<";">>, <<";", " ">>} :
          request = [authorization |-> a, cookie |-> RenderJar(jar, sep)]
    /\ extracted = Pending

\* no async call has been started
CallsIdle == asyncCalls = <<>>

Init == StoreInit /\ HookInit /\ AuthIdle /\ ExtractIdle /\ CallsIdle

\* the start of a process whose environment holds either value or not
AuthStart == StoreInit /\ HookInit /\ AuthInit /\ ExtractIdle /\ CallsIdle

\* a request arrives at a process that has done nothing yet
ExtractStart == StoreInit /\ HookInit /\ AuthIdle /\ ExtractInit /\ CallsIdle

storeRest == <<healthMetrics, dreamAnalyses, aiChats, userSettings, nextId, ret,
               writtenFor, calls>>

RecordsNext ==
    /\ \/ \E u \in InsertUserIds : createHealthMetrics(u)
       \/ \E u \in InsertUserIds : createDreamAnalysis(u)
       \/ \E u \in InsertUserIds : createAiChat(u)
       \/ AdvanceClock
    /\ UNCHANGED <<hookVars, callVars, authVars, extractVars>>

SettingsNext ==
    /\ \E u \in UserIds, p \in Partials : updateUserSettings(u, p)
    /\ UNCHANGED <<hookVars, callVars, authVars, extractVars>>

HookNext ==
    /\ \E dHeart \in ExtremeDraws(6), dStress \in ExtremeDraws(10),
          dSleep \in ExtremeDraws(6), dNeural \in ExtremeDraws(8),
          dSteps \in ExtremeDraws(50) :
            updateMetrics(dHeart, dStress, dSleep, dNeural, dSteps)
    /\ UNCHANGED <<storeVars, authVars, extractVars, callVars>>

AuthNext ==
    /\ \/ \E payload \in Payloads : generateToken(payload)
       \/ \E req \in AuthRequests : requireAuth(req)
       \/ \E method \in {"GET", "POST"}, u \in UserIds : healthMetricsHandler(method, u, "ok")
       \/ \E step \in ClockSteps : AdvanceBy(step)
    /\ UNCHANGED <<storeRest, hookVars, callVars, extractVars, thrown>>

\* getAuthToken applied to the request
getAuthTokenCall ==
    /\ extracted = Pending
    /\ extracted' = getAuthToken(request)
    /\ UNCHANGED <<request, jar>>

ExtractNext ==
    /\ getAuthTokenCall
    /\ UNCHANGED <<storeVars, hookVars, callVars, authVars>>

\* the numbers of samples of the user whose data is exported: none, few, and
\* as many as the model holds
SampleCounts == {0, 1, 2} \cup {n \in 0..MaxSamples : n >= MaxSamples - 1}

\* the i-th sample of a store, created at time i by a call for userId
Sample(i, userId) ==
    [id |-> i, timestamp |-> i, userId |-> userId, heartRate |-> "72",
     stressLevel |-> "34", sleepQuality |-> "87", neuralActivity |-> "92",
     dailySteps |-> IF i % 2 = 0 THEN "8247" ELSE Null, sleepDuration |-> Null]

\* the stores an export reads: k samples of B, then n samples of A
ExportStores ==
    {[i \in 1..(k + n) |-> IF i <= k THEN Sample(i, "B") ELSE Sample(i, "A")] :
        n \in SampleCounts, k \in {0, 1}}

\* a store after creates of metric samples, and a process with or without its
\* connection string
ExportStart ==
    /\ healthMetrics \in ExportStores
    /\ dreamAnalyses = <<>>
    /\ aiChats = <<>>
    /\ userSettings = <<>>
    /\ nextId = Len(healthMetrics) + 1
    /\ now = Len(healthMetrics)
    /\ ret = NoReturn
    /\ writtenFor = [i \in 1..Len(healthMetrics) |-> healthMetrics[i].userId]
    /\ calls = 0
    /\ HookInit
    /\ jwtSecret = "secret"
    /\ databaseUrl \in UrlValues
    /\ issued = <<>>
    /\ issuedAt = <<>>
    /\ authRet = <<>>
    /\ sent = <<>>
    /\ advances = 0
    /\ thrown = FALSE
    /\ ExtractIdle
    /\ CallsIdle

ExportNext ==
    /\ \/ \E u \in UserIds \cup {UnknownUser} : exportRoute(u)
       \/ \E method \in {"GET", "POST"}, u \in UserIds \cup {UnknownUser, NotAString},
             db \in DbOutcomes : exportHandler(method, u, db)
    /\ UNCHANGED <<storeVars, hookVars, callVars, extractVars, jwtSecret, databaseUrl, issued,
                   issuedAt, authRet, advances>>

\* the two exports over stores of metric samples
SpecExport == ExportStart /\ [][ExportNext]_vars

RoutesNext ==
    /\ \/ \E body \in MetricsBodies : postHealthMetricsRoute(body)
       \/ \E body \in TextBodies, ai \in AiOutcomes, elapsed \in Elapsed :
             postDreamAnalysisRoute(body, ai, elapsed)
       \/ \E body \in TextBodies, ai \in AiOutcomes, elapsed \in Elapsed :
             postAiChatRoute(body, ai, elapsed)
    /\ thrown' = FALSE
    /\ UNCHANGED <<hookVars, callVars, extractVars, jwtSecret, databaseUrl, issued, issuedAt,
                   authRet, advances>>

\* the write routes of the Express server over MemStorage
SpecRoutes == Init /\ [][RoutesNext]_vars

\* the userIds of the bodies the handlers are sent, and of their paths
BodyUserIds == {"A", Undefined}
PathUserIds == UserIds \cup {NotAString}

HandlerTextBodies == {NoBody} \cup [userId : BodyUserIds, text : {"text", Undefined}]

GatewayNext ==
    /\ \/ \E method \in Methods, u \in PathUserIds, db \in DbOutcomes :
             healthMetricsHandler(method, u, db) /\ thrown' = FALSE /\ UNCHANGED storeRest
       \/ \E method \in Methods, body \in {b \in MetricsBodies : b.valid => b.userId \in BodyUserIds},
             db \in DbOutcomes : createHealthMetricsHandler(method, body, db)
       \/ \E method \in Methods, u \in PathUserIds, db \in DbOutcomes :
             dreamAnalysesHandler(method, u, db)
       \/ \E method \in Methods, body \in HandlerTextBodies, ai \in AiOutcomes,
             db \in DbOutcomes : createDreamAnalysisHandler(method, body, ai, db)
       \/ \E method \in Methods, u \in PathUserIds, db \in DbOutcomes :
             aiChatsHandler(method, u, db)
       \/ \E method \in Methods, body \in HandlerTextBodies, ai \in AiOutcomes,
             failAt \in 0..Len(ChatQueries) : createAiChatHandler(method, body, ai, failAt)
       \/ \E method \in Methods, body \in HandlerTextBodies, ai \in AiOutcomes :
             analyzeMoodHandler(method, body, ai)
       \/ \E method \in Methods, u \in PathUserIds, body \in SettingsBodies,
             failAt \in 0..Len(SettingsQueries) : settingsHandler(method, u, body, failAt)
       \/ \E method \in Methods, u \in PathUserIds, db \in DbOutcomes :
             exportHandler(method, u, db) /\ UNCHANGED storeVars
    /\ UNCHANGED <<hookVars, callVars, extractVars, jwtSecret, databaseUrl, issued, issuedAt,
                   authRet, advances>>

\* a process started with or without its connection string, its tables empty
GatewayStart ==
    /\ StoreInit
    /\ HookInit
    /\ jwtSecret = "secret"
    /\ databaseUrl \in UrlValues
    /\ issued = <<>>
    /\ issuedAt = <<>>
    /\ authRet = <<>>
    /\ sent = <<>>
    /\ advances = 0
    /\ thrown = FALSE
    /\ ExtractIdle
    /\ CallsIdle

\* the serverless handlers over the tables of the database
SpecGateway == GatewayStart /\ [][GatewayNext]_vars

\* the append-only collections under creates and a moving clock
SpecRecords == Init /\ [][RecordsNext]_vars

\* the creates and upserts one run of the whole store makes
MaxStoreOps == 2

\* every operation of MemStorage: the creates and the upserts, the reads, and
\* the clock between them
StoreNext ==
    /\ \/ /\ RecordCount + calls < MaxStoreOps
          /\ \/ \E u \in InsertUserIds : createHealthMetrics(u)
             \/ \E u \in InsertUserIds : createDreamAnalysis(u)
             \/ \E u \in InsertUserIds : createAiChat(u)
             \/ \E u \in UserIds, p \in Partials : updateUserSettings(u, p)
       \/ \E u \in UserIds, limit \in {1, MaxLimit} : getHealthMetricsCall(u, limit)
       \/ \E u \in UserIds, limit \in {1, MaxLimit} : getDreamAnalysesCall(u, limit)
       \/ \E u \in UserIds, limit \in {1, MaxLimit} : getAiChatsCall(u, limit)
       \/ \E u \in UserIds : getUserSettingsCall(u)
       \/ AdvanceClock
    /\ UNCHANGED <<hookVars, callVars, authVars, extractVars>>

\* the whole store: creates, reads and upserts in any order
SpecStore == Init /\ [][StoreNext]_vars

\* the partial objects of the concurrent upserts: each changes one field
UpsertPartials ==
    {p \in Partials : \/ p = [theme |-> "light"]
                      \/ p = [electrodeCount |-> "128"]
                      \/ p = [samplingRate |-> "1000"]}

\* upserts whose continuations run in any order
UpsertNext ==
    /\ \/ \E u \in UserIds, p \in UpsertPartials : updateUserSettingsRead(u, p)
       \/ \E call \in 1..Len(asyncCalls) : updateUserSettingsWrite(call)
    /\ UNCHANGED <<hookVars, authVars, extractVars>>

\* the settings collection under concurrent upserts
SpecUpsert == Init /\ [][UpsertNext]_vars

\* the values the optional fields of an insert object are given
StepValues == {0, 8247}
SleepValues == {0, 7}

\* InsertHealthMetrics objects: required metrics and a userId, with or
\* without dailySteps and sleepDuration
MetricsInputs ==
    LET required == [userId |-> "A", heartRate |-> 72]
    IN  {required}
          \cup {required @@ [dailySteps |-> d] : d \in StepValues}
          \cup {required @@ [sleepDuration |-> z] : z \in SleepValues}
          \cup {required @@ [dailySteps |-> d, sleepDuration |-> z] :
                    d \in StepValues, z \in SleepValues}

CreateNext ==
    /\ \/ \E insertMetrics \in MetricsInputs : createHealthMetricsOf(insertMetrics)
       \/ AdvanceClock
    /\ UNCHANGED <<hookVars, callVars, authVars, extractVars>>

\* createHealthMetrics over insert objects with optional fields
SpecCreate == Init /\ [][CreateNext]_vars

\* the most chat messages a store of the chat lists holds
MaxChats == 3

\* the i-th chat message of a store, created at time i by a call for userId
Chat(i, userId) == [id |-> i, timestamp |-> i, userId |-> userId]

\* the stores the chat lists read: up to MaxChats messages of A and of B, each
\* created later than the one before it
ChatStores ==
    UNION {{[i \in 1..n |-> Chat(i, who[i])] : who \in [1..n -> UserIds]} : n \in 0..MaxChats}

\* a store after creates of chat messages, and a process with or without its
\* connection string
ChatListStart ==
    /\ healthMetrics = <<>>
    /\ dreamAnalyses = <<>>
    /\ aiChats \in ChatStores
    /\ userSettings = <<>>
    /\ nextId = Len(aiChats) + 1
    /\ now = Len(aiChats)
    /\ ret = NoReturn
    /\ writtenFor = [i \in 1..Len(aiChats) |-> aiChats[i].userId]
    /\ calls = 0
    /\ HookInit
    /\ jwtSecret = "secret"
    /\ databaseUrl \in UrlValues
    /\ issued = <<>>
    /\ issuedAt = <<>>
    /\ authRet = <<>>
    /\ sent = <<>>
    /\ advances = 0
    /\ thrown = FALSE
    /\ ExtractIdle
    /\ CallsIdle

ChatListNext ==
    /\ \/ \E method \in {"GET", "POST"}, u \in UserIds, db \in DbOutcomes :
             aiChatsHandler(method, u, db)
       \/ \E u \in UserIds : /\ getAiChatsCall(u, DefaultChatsLimit)
                              /\ UNCHANGED <<sent, thrown>>
    /\ UNCHANGED <<hookVars, callVars, extractVars, jwtSecret, databaseUrl, issued, issuedAt,
                   authRet, advances>>

\* the two lists of a user's chat messages over the same stored messages
SpecChatList == ChatListStart /\ [][ChatListNext]_vars

\* the first tick of the hook, with every draw of the four scalar metrics
FirstTick ==
    /\ ticks = 0
    /\ \E dHeart \in RandomFloor(6), dStress \in RandomFloor(10),
          dSleep \in RandomFloor(6), dNeural \in RandomFloor(8),
          dSteps \in ExtremeDraws(50) :
            updateMetrics(dHeart, dStress, dSleep, dNeural, dSteps)
    /\ UNCHANGED <<storeVars, authVars, extractVars, callVars>>

\* one tick from the hook's initial metrics, none of which it clamps
SpecFirstTick == Init /\ [][FirstTick]_vars

\* the chat requests one run of the server is sent
MaxRequests == 2

\* the bodies of the concurrent chat requests
ChatBodies == {NoBody} \cup [userId : UserIds, text : {"text"}]

\* chat requests whose continuations run in any order, and the clock
ChatNext ==
    /\ \/ /\ Len(asyncCalls) < MaxRequests
          /\ \E body \in ChatBodies : postAiChatStart(body)
       \/ \E call \in 1..Len(asyncCalls), ai \in AiOutcomes : postAiChatFinish(call, ai)
       \/ AdvanceClock /\ UNCHANGED asyncCalls
    /\ UNCHANGED <<hookVars, authVars, extractVars>>

\* POST /api/ai-chat under concurrent requests
SpecChat == Init /\ [][ChatNext]_vars

\* the credentials a request carries: none, a Bearer token the server
\* issued, a forged token in the cookie
Credentials ==
    {[authorization |-> AbsentString, cookie |-> AbsentString],
     [authorization |-> BearerPrefix \o <<TokenNames[1]>>, cookie |-> AbsentString],
     [authorization |-> AbsentString, cookie |-> AuthCookie \o <<"=">> \o <<"forged">>]}

\* the body a request to a route carries: the creating routes and the
\* settings route read it
RouteBodies(name) ==
    CASE name = "health-metrics/index" -> {b \in MetricsBodies : b.valid => b.userId = "A"}
      [] name \in {"dream-analysis/index", "ai-chat/index"} ->
            {b \in HandlerTextBodies : b # NoBody => b.text = "text"}
      [] name = "settings/[userId]" ->
            {b \in SettingsBodies : b.valid => b.partial = [theme |-> "light"]}
      [] OTHER -> {NoBody}

\* the routes that read the body of the request, the methods a route serves
BodyRoutes == {"health-metrics/index", "dream-analysis/index", "ai-chat/index", "settings/[userId]"}
ServedMethods(name) ==
    CASE name = "settings/[userId]" -> {"GET", "POST"}
      [] name \in BodyRoutes -> {"POST"}
      [] OTHER -> {"GET"}

\* a request to a route without its credentials, with the outcomes of the
\* model's reply and of the queries: one of them fails at most, and only
\* under a request that gets as far as calling them
RouteCases(name) ==
    {c \in [method : {"GET", "POST"}, userId : {"A"}, body : RouteBodies(name),
            ai : {"ok", "fails"}, db : DbOutcomes] :
        (c.ai # "ok" \/ c.db # "ok") =>
            /\ c.ai = "ok" \/ c.db = "ok"
            /\ c.ai = "ok" \/ name \in {"dream-analysis/index", "ai-chat/index"}
            /\ c.method \in ServedMethods(name)
            /\ name \in BodyRoutes => c.body \notin {NoBody, [valid |-> FALSE]}}

\* the request with these credentials
WithCredentials(req, credentials) ==
    [method |-> req.method, userId |-> req.userId, body |-> req.body,
     authorization |-> credentials.authorization, cookie |-> credentials.cookie]

\* the rows the tables hold at most under SpecTrust
MaxTrustRows == 1

TrustNext ==
    /\ \E name \in RecordRoutes, credentials \in Credentials :
            \E c \in RouteCases(name) :
                serve(name, WithCredentials(c, credentials), c.ai, c.db)
    /\ RowCount' <= MaxTrustRows
    /\ UNCHANGED <<hookVars, callVars, extractVars, jwtSecret, databaseUrl, issued, issuedAt,
                   authRet, advances>>

\* a configured process that has issued one token, its tables empty
TrustStart ==
    /\ StoreInit
    /\ HookInit
    /\ jwtSecret = "secret"
    /\ databaseUrl = "postgres://db"
    /\ issued = <<SignToken([userId |-> "u1", username |-> "alice"], "secret", 0)>>
    /\ issuedAt = <<0>>
    /\ authRet = <<>>
    /\ sent = <<>>
    /\ advances = 0
    /\ thrown = FALSE
    /\ ExtractIdle
    /\ CallsIdle

\* the record routes under requests with and without credentials
SpecTrust == TrustStart /\ [][TrustNext]_vars

\* the settings collection under upserts
SpecSettings == Init /\ [][SettingsNext]_vars

\* the metric walk of the hook, tick after tick
SpecHook == Init /\ [][HookNext]_vars

\* the token layer of a process started with or without its two values
SpecAuth == AuthStart /\ [][AuthNext]_vars

\* getAuthToken over the requests
SpecExtract == ExtractStart /\ [][ExtractNext]_vars

-----------------------------------------------------------------------------
(* Claims about the record store *)

WrittenForUser(records, userId) ==
    \A i \in 1..Len(records) : writtenFor[records[i].id] = userId

\* C1: whatever getHealthMetrics, getDreamAnalyses, getAiChats and
\* getUserSettings return for a user B (the export reads getHealthMetrics) was
\* written by a call scoped to B; a record written by a call scoped to another
\* user is never returned for B.
C1_CrossUserIsolation ==
    \A b \in UserIds :
        /\ WrittenForUser(getHealthMetrics(b, DefaultMetricsLimit), b)
        /\ WrittenForUser(getDreamAnalyses(b, DefaultDreamsLimit), b)
        /\ WrittenForUser(getAiChats(b, DefaultChatsLimit), b)
        /\ WrittenForUser(getUserSettings(b), b)

\* C3: the settings store holds at most one record per userId value.
C3_OneSettingsRecordPerUser ==
    \A i, j \in 1..Len(userSettings) :
        i # j => userSettings[i].userId # userSettings[j].userId

\* the defaults the claim names: dark, 64, 500, the empty mapping, true
C4_BuiltIn ==
    [theme |-> "dark", electrodeCount |-> "64", samplingRate |-> "500",
     alertThresholds |-> "{}", animationsEnabled |-> "true"]

\* the value the claim gives field k after updateUserSettings(userId, partial),
\* read in the state before the call
C4_Expected(userId, partial, k) ==
    LET mine == {i \in 1..Len(userSettings) : userSettings[i].userId = userId}
        first == CHOOSE i \in mine : \A j \in mine : i <= j
    IN  IF k \in DOMAIN partial THEN partial[k]
        ELSE IF mine # {} THEN userSettings[first][k]
        ELSE C4_BuiltIn[k]

\* C4: updateUserSettings(userId, partial) returns and stores a record whose
\* theme, electrodeCount, samplingRate, alertThresholds and animationsEnabled
\* are each partial's value if partial has the field, else the value of the
\* user's existing record if there is one, else the built-in default.
C4_SettingsMergePrecedence ==
    [][\A u \in UserIds, p \in Partials :
          updateUserSettings(u, p) =>
              /\ \A k \in DOMAIN C4_BuiltIn : ret'[k] = C4_Expected(u, p, k)
              /\ \E i \in 1..Len(userSettings') : userSettings'[i] = ret']_vars

\* a call has returned and stored a record that took theme from the existing
\* record (not the default), electrodeCount from the partial object (not the
\* existing record) and samplingRate from the defaults
C4_Witness ==
    /\ "theme" \in DOMAIN ret
    /\ ret.theme = "light" /\ ret.electrodeCount = "128" /\ ret.samplingRate = "500"
    /\ \E i \in 1..Len(userSettings) : userSettings[i] = ret
    /\ calls = 2

\* C5: for a user with n stored chat messages and any limit >= 0,
\* getAiChats(userId, limit) is the min(n, limit) most recently created
\* messages of the user, oldest of them first.
C5_ChatTail ==
    \A u \in UserIds \cup {UnknownUser}, limit \in 0..MaxLimit :
        LET mine == OfUser(aiChats, u)
            n == Len(mine)
            m == Min(n, limit)
        IN  getAiChats(u, limit) = SubSeq(mine, n - m + 1, n)

StrictlyIncreasing(records) ==
    \A i \in 1..(Len(records) - 1) : records[i].timestamp < records[i + 1].timestamp

\* C6: for a user whose n samples were inserted with strictly increasing
\* timestamps, getHealthMetrics(userId, k) is the min(n, k) samples with the
\* largest timestamps, newest first; a userId with no samples gets the empty
\* list.
C6_MetricsNewestFirst ==
    \A u \in UserIds \cup {UnknownUser}, k \in 0..MaxLimit :
        LET mine == OfUser(healthMetrics, u)
            n == Len(mine)
        IN  StrictlyIncreasing(mine) =>
                getHealthMetrics(u, k) = [i \in 1..Min(n, k) |-> mine[n - i + 1]]

\* a user has three samples with strictly increasing timestamps (so a limit of
\* 1 or 2 cuts the list) and another userId has none
C6_Witness ==
    \E u \in UserIds :
        /\ Len(OfUser(healthMetrics, u)) = 3
        /\ StrictlyIncreasing(OfUser(healthMetrics, u))
        /\ getHealthMetrics(u, 2) # getHealthMetrics(u, 3)
        /\ getHealthMetrics(UnknownUser, 2) = <<>>

-----------------------------------------------------------------------------
(* Claims about the metric walk *)

\* C2: after any number of updateMetrics ticks from the hook's initial
\* metrics, heartRate is within [60, 100] and stressLevel, sleepQuality and
\* neuralActivity are each within [0, 100].
C2_BoundedWalk ==
    /\ currentMetrics.heartRate \in 60..100
    /\ currentMetrics.stressLevel \in 0..100
    /\ currentMetrics.sleepQuality \in 0..100
    /\ currentMetrics.neuralActivity \in 0..100

\* the walk has run into a bound of every metric at once: each was clamped
C2_Witness ==
    /\ ticks = MaxTicks
    /\ currentMetrics.heartRate = 60
    /\ currentMetrics.stressLevel = 0
    /\ currentMetrics.sleepQuality = 100
    /\ currentMetrics.neuralActivity = 100

-----------------------------------------------------------------------------
(* Claims about the token layer *)

Identity(result) == [userId |-> result.userId, username |-> result.username]

IssuedPayload(i) == [userId |-> issued[i].userId, username |-> issued[i].username]

\* C7 as stated: a token verifies to its userId and username at any time
\* before 7 days have passed since generateToken returned it, and to null at
\* any time after those 7 days.
C7_RoundTripSinceIssuance ==
    \A i \in 1..Len(issued) :
        LET result == verifyToken(<<TokenNames[i]>>)
        IN  /\ now < issuedAt[i] + SevenDaysMs =>
                  result # <<>> /\ Identity(result[1]) = IssuedPayload(i)
            /\ now > issuedAt[i] + SevenDaysMs => result = <<>>

\* the expiry of the i-th token: its issuance, cut to the second, plus 7 days
C7_ExpiryMs(i) == (issuedAt[i] \div 1000) * 1000 + SevenDaysMs

\* C7, amended: a token verifies to its userId and username at any time
\* before its expiry, which is 7 days after the second it was issued in, and
\* to null from that expiry on.
C7_RoundTripUntilExpiry ==
    \A i \in 1..Len(issued) :
        LET result == verifyToken(<<TokenNames[i]>>)
        IN  IF now < C7_ExpiryMs(i)
            THEN result # <<>> /\ Identity(result[1]) = IssuedPayload(i)
            ELSE result = <<>>

\* two tokens have been issued; the first has expired and verifies to null,
\* the second is a second short of its expiry and verifies to its payload
C7_Witness ==
    /\ Len(issued) = 2
    /\ verifyToken(<<TokenNames[1]>>) = <<>>
    /\ verifyToken(<<TokenNames[2]>>) # <<>>
    /\ now > issuedAt[2]

\* C8: a process that lacks the signing secret or the connection string
\* fails when it starts: it handles no request and issues or verifies no
\* token.
C8_FailFastAtStartup ==
    (sent # <<>> \/ authRet # <<>> \/ issued # <<>>) => ~SecretMissing /\ ~DatabaseUrlMissing

\* the value the claim says the cookies give: for an auth_token cookie its
\* value (null for one without a value), null when there is no such cookie
C9_CookieAnswers ==
    LET mine == {i \in 1..Len(jar) : jar[i].name = "auth_token"}
    IN  IF mine = {} THEN {NullString}
        ELSE UNION {IF jar[i].value = AbsentString THEN {NullString}
                    ELSE IF jar[i].value = <<>> THEN {NullString, <<>>}
                    ELSE {jar[i].value} : i \in mine}

\* C9: getAuthToken returns the token of an Authorization header 'Bearer
\* <token>' whatever the cookies; otherwise the value of the auth_token
\* cookie if the cookie header has one; otherwise null.
C9_AuthTokenPrecedence ==
    extracted # Pending =>
        IF request.authorization \in {BearerPrefix \o t : t \in {<<>>, <<"t2">>}}
        THEN request.authorization = BearerPrefix \o extracted
        ELSE extracted \in C9_CookieAnswers

\* C10: requireAuth returns the decoded identity and writes no response
\* exactly when getAuthToken extracts a token that verifyToken accepts; in
\* every other case it returns null and has sent exactly one 401 response.
C10_RequireAuthOutcome ==
    [][\A req \in AuthRequests :
          requireAuth(req) =>
              LET token == getAuthToken(req)
                  accepted == token # NullString /\ verifyToken(token) # <<>>
              IN  IF accepted
                  THEN authRet' = verifyToken(token) /\ sent' = <<>>
                  ELSE /\ authRet' = <<>>
                       /\ Len(sent') = 1
                       /\ sent'[1].status = 401]_vars

\* requireAuth has returned an identity, having written nothing
C10_Witness ==
    /\ authRet # <<>>
    /\ authRet[1].userId = "u2"
    /\ sent = <<>>

-----------------------------------------------------------------------------
(* Claims about the export *)

\* the store answers: the connection string is there and the query succeeds
StoreAnswers(db) == ~DatabaseUrlMissing /\ db = "ok"

\* C11: an export for a user with no metric samples is answered 200 with a
\* body that says there is no data: not the empty body, not a header line
\* alone.
C11_ExportNoData ==
    [][\A u \in UserIds \cup {UnknownUser} :
          /\ OfUser(healthMetrics, u) = <<>>
          /\ \/ exportRoute(u)
             \/ \E db \in DbOutcomes : StoreAnswers(db) /\ exportHandler("GET", u, db)
          => /\ Len(sent') = 1
             /\ sent'[1].status = 200
             /\ sent'[1].text \notin {<<>>, CsvHeader}]_vars

\* the body the claim gives the export of u: the header line, then a line for
\* each of the min(n, 50) newest samples of u, newest first
C12_Expected(u) ==
    LET mine == OfUser(healthMetrics, u)
        n == Len(mine)
    IN  Join(<<CsvHeader>> \o [i \in 1..Min(n, 50) |-> CsvLine(mine[n - i + 1])], <<"\n">>)

\* C12: the export body of a user with n >= 1 metric samples is one header
\* line followed by min(n, 50) data lines, one for each of the user's most
\* recent samples, newest first.
C12_ExportLines ==
    [][\A u \in UserIds :
          /\ OfUser(healthMetrics, u) # <<>>
          /\ \/ exportRoute(u)
             \/ \E db \in DbOutcomes : StoreAnswers(db) /\ exportHandler("GET", u, db)
          => /\ Len(sent') = 1
             /\ sent'[1].status = 200
             /\ sent'[1].text = C12_Expected(u)]_vars

-----------------------------------------------------------------------------
(* Claims about the write routes *)

\* C14: when the collaborator call fails or its output cannot be parsed
\* during POST /dream-analysis or POST /ai-chat, the request is answered 500
\* and the record store is as it was before the request.
C14_NothingPersistedOnFailure ==
    [][\A body \in TextBodies \ {NoBody}, ai \in AiOutcomes \ {"ok"}, elapsed \in Elapsed :
          \/ postDreamAnalysisRoute(body, ai, elapsed)
          \/ postAiChatRoute(body, ai, elapsed)
          => /\ Len(sent') = 1
             /\ sent'[1].status = 500
             /\ UNCHANGED <<healthMetrics, dreamAnalyses, aiChats, userSettings>>]_vars

\* C16: every metric, dream and chat record of the store has a userId that
\* is not null and is the user the record was created for.
C16_RecordsNameTheirUser ==
    \A records \in {healthMetrics, dreamAnalyses, aiChats} :
        \A i \in 1..Len(records) :
            /\ records[i].userId # Null
            /\ records[i].userId = writtenFor[records[i].id]

-----------------------------------------------------------------------------
(* Claims about the serverless handlers *)

\* the request was answered 405 with an Allow header of exactly these methods
C13_NotAllowed(allowed) == ~thrown' /\ sent' = <<MethodNotAllowed(allowed)>>

\* C13: every serverless handler answers a request whose method it does not
\* implement with status 405 and an Allow header that lists exactly the
\* methods it implements: GET for the four lists and the export, POST for the
\* four creating handlers, GET, POST and PUT for the settings.  The requests
\* are those whose userId is a string.
C13_MethodNotAllowed ==
    [][\A method \in Methods :
          /\ method # "GET" =>
                /\ (\E u \in UserIds, db \in DbOutcomes :
                        healthMetricsHandler(method, u, db)) => C13_NotAllowed(<<"GET">>)
                /\ (\E u \in UserIds, db \in DbOutcomes :
                        dreamAnalysesHandler(method, u, db)) => C13_NotAllowed(<<"GET">>)
                /\ (\E u \in UserIds, db \in DbOutcomes :
                        aiChatsHandler(method, u, db)) => C13_NotAllowed(<<"GET">>)
                /\ (\E u \in UserIds, db \in DbOutcomes :
                        exportHandler(method, u, db)) => C13_NotAllowed(<<"GET">>)
          /\ method # "POST" =>
                /\ (\E body \in MetricsBodies, db \in DbOutcomes :
                        createHealthMetricsHandler(method, body, db))
                      => C13_NotAllowed(<<"POST">>)
                /\ (\E body \in HandlerTextBodies, ai \in AiOutcomes, db \in DbOutcomes :
                        createDreamAnalysisHandler(method, body, ai, db))
                      => C13_NotAllowed(<<"POST">>)
                /\ (\E body \in HandlerTextBodies, ai \in AiOutcomes,
                        failAt \in 0..Len(ChatQueries) :
                        createAiChatHandler(method, body, ai, failAt))
                      => C13_NotAllowed(<<"POST">>)
                /\ (\E body \in HandlerTextBodies, ai \in AiOutcomes :
                        analyzeMoodHandler(method, body, ai)) => C13_NotAllowed(<<"POST">>)
          /\ method \notin {"GET", "POST", "PUT"} =>
                /\ (\E u \in UserIds, body \in SettingsBodies,
                        failAt \in 0..Len(SettingsQueries) :
                        settingsHandler(method, u, body, failAt))
                      => C13_NotAllowed(<<"GET", "POST", "PUT">>)]_vars

\* C20: no handler lets an exception escape: every request a handler has
\* been given was answered by that handler, with one response.
C20_NoEscapedException == ~thrown /\ Len(sent) <= 1

-----------------------------------------------------------------------------
(* Claims about the order and the concurrency of the creates *)

\* C15: in each collection the records created by successive create calls
\* have strictly increasing timestamps, two creates that read the same
\* wall-clock millisecond included.
C15_StrictInsertionOrder ==
    /\ StrictlyIncreasing(healthMetrics)
    /\ StrictlyIncreasing(dreamAnalyses)
    /\ StrictlyIncreasing(aiChats)

\* the call appended its record to this collection, which kept every record
\* it had, each in its place, and grew by exactly one
C17_Added(before, after) ==
    /\ Len(after) = Len(before) + 1
    /\ SubSeq(after, 1, Len(before)) = before
    /\ after[Len(after)] = ret'
    /\ \A i \in 1..Len(before) : before[i].id # ret'.id

\* C17: a create call has no await before its Map.set, so concurrent calls
\* run one whole call after another, in any order; in every such order each
\* call adds its record to its collection and leaves every other record of
\* the three collections as it was.
C17_NoLostWrite ==
    [][\A u \in InsertUserIds :
          /\ createHealthMetrics(u) =>
                /\ C17_Added(healthMetrics, healthMetrics')
                /\ UNCHANGED <<dreamAnalyses, aiChats>>
          /\ createDreamAnalysis(u) =>
                /\ C17_Added(dreamAnalyses, dreamAnalyses')
                /\ UNCHANGED <<healthMetrics, aiChats>>
          /\ createAiChat(u) =>
                /\ C17_Added(aiChats, aiChats')
                /\ UNCHANGED <<healthMetrics, dreamAnalyses>>]_vars

\* three calls made at the same instant, two of them of one kind, have all
\* three records in the store
C17_Witness ==
    /\ RecordCount = 3
    /\ nextId = 4
    /\ now = 0
    /\ \E records \in {healthMetrics, dreamAnalyses, aiChats} :
            /\ Len(records) = 2
            /\ records[1].id # records[2].id
            /\ records[1].timestamp = records[2].timestamp

-----------------------------------------------------------------------------
(* Claims about rejected tokens *)

\* the i-th issued token carries the server's signature and has expired
C18_Expired(i) ==
    /\ ~SecretMissing
    /\ issued[i].key = jwtSecret
    /\ EpochSeconds(now) >= issued[i].exp

\* the requests that carry this token, in the header or in the cookie
C18_Carrying(token) ==
    {[authorization |-> BearerPrefix \o token, cookie |-> AbsentString],
     [authorization |-> AbsentString, cookie |-> AuthCookie \o <<"=">> \o token]}

\* C18: a token with a bad signature and a correctly signed token that has
\* expired get the same result: verifyToken returns null for both, and a
\* requireAuth call with the one does exactly what a call with the other
\* does, the same return value and the same 401 response.
C18_SameRejection ==
    [][\A i \in 1..Len(issued) :
          C18_Expired(i) =>
              /\ verifyToken(<<TokenNames[i]>>) = <<>>
              /\ verifyToken(<<"forged">>) = <<>>
              /\ \A reqExpired \in C18_Carrying(<<TokenNames[i]>>),
                    reqForged \in C18_Carrying(<<"forged">>) :
                        requireAuth(reqExpired) <=> requireAuth(reqForged)]_vars

\* the first token has expired while the second still verifies, and
\* requireAuth has just rejected a token
C18_Witness ==
    /\ Len(issued) = 2
    /\ C18_Expired(1)
    /\ ~C18_Expired(2)
    /\ verifyToken(<<TokenNames[2]>>) # <<>>
    /\ authRet = <<>>
    /\ sent = <<Unauthorized("Invalid or expired token")>>

-----------------------------------------------------------------------------
(* Claims about the step count *)

\* C19: dailySteps never decreases: the value after a tick is greater than
\* or equal to the value before it, from every state the hook reaches.
C19_MonotoneSteps ==
    [][currentMetrics'.dailySteps >= currentMetrics.dailySteps]_vars

\* two ticks have run: one drew 0 and left the count as it was, the other
\* drew 49 and raised it
C19_Witness ==
    /\ ticks = 2
    /\ currentMetrics.dailySteps = InitialMetrics.dailySteps + 49

-----------------------------------------------------------------------------
(* Claims about the stored dream analyses *)

\* C21: every emotion entry of every stored dream record has an intensity
\* within [0, 10], whatever structured result the collaborator returned.
C21_IntensityInRange ==
    \A i \in 1..Len(dreamAnalyses) :
        \A j \in 1..Len(dreamAnalyses[i].emotions) :
            dreamAnalyses[i].emotions[j].intensity \in 0..10

-----------------------------------------------------------------------------
(* Claims about the records the store keeps *)

\* every record of the one collection is a record of the other, field by field
C22_Kept(before, after) ==
    \A i \in 1..Len(before) : \E j \in 1..Len(after) : after[j] = before[i]

\* C22: every store operation (a create, a list or a get, a settings
\* upsert) leaves every metric, dream and chat record that was there before
\* it present, with all of its fields unchanged.
C22_AppendOnly ==
    [][/\ C22_Kept(healthMetrics, healthMetrics')
       /\ C22_Kept(dreamAnalyses, dreamAnalyses')
       /\ C22_Kept(aiChats, aiChats')]_vars

\* a chat record is in the store, a settings upsert has run since, and the
\* last operation was a read that returned the chat record
C22_Witness ==
    /\ Len(aiChats) = 1
    /\ calls = 1
    /\ Len(userSettings) = 1
    /\ ret = Returned(aiChats)

-----------------------------------------------------------------------------
(* Claims about concurrent upserts *)

\* the calls for this user that have completed, and whether one is in flight
C23_Done(u) == {c \in 1..Len(asyncCalls) : asyncCalls[c].userId = u /\ asyncCalls[c].pc = "done"}
C23_InFlight(u) ==
    \E c \in 1..Len(asyncCalls) : asyncCalls[c].userId = u /\ asyncCalls[c].pc = "awaiting"

\* C23: when the upserts for a user have completed, concurrent ones for a
\* user with no record included, exactly one settings record exists for that
\* user.
C23_OneRecordAfterUpserts ==
    \A u \in UserIds :
        (C23_Done(u) # {} /\ ~C23_InFlight(u)) => Len(OfUser(userSettings, u)) = 1

\* C24: when two calls for a user who has a settings record, each changing
\* a different field, have completed, the stored record carries both
\* changes.
C24_BothChangesKept ==
    \A u \in UserIds :
        \A c1, c2 \in C23_Done(u) :
            LET p1 == asyncCalls[c1].partialSettings
                p2 == asyncCalls[c2].partialSettings
            IN  (/\ ~C23_InFlight(u)
                 /\ asyncCalls[c1].existing # <<>>
                 /\ asyncCalls[c2].existing # <<>>
                 /\ (DOMAIN p1) \cap (DOMAIN p2) = {})
                => LET stored == getUserSettings(u)[1]
                   IN  /\ \A k \in DOMAIN p1 : stored[k] = p1[k]
                       /\ \A k \in DOMAIN p2 : stored[k] = p2[k]

-----------------------------------------------------------------------------
(* Claims about the optional fields of a metric sample *)

\* C25: createHealthMetrics stores dailySteps and sleepDuration as they were
\* supplied whenever the insert object has them, 0 included, and stores null
\* for a field only when the insert object lacks it.
C25_OptionalFieldsKept ==
    [][\A insertMetrics \in MetricsInputs :
          createHealthMetricsOf(insertMetrics) =>
              LET stored == healthMetrics'[Len(healthMetrics')]
              IN  \A k \in {"dailySteps", "sleepDuration"} :
                      stored[k] = IF k \in DOMAIN insertMetrics
                                  THEN <<insertMetrics[k]>>
                                  ELSE <<>>]_vars

-----------------------------------------------------------------------------
(* Claims about the two chat lists *)

\* C26: over the same stored chat messages of a user, the serverless
\* GET /ai-chat/{userId} handler answers with the sequence the in-memory
\* getAiChats(userId) returns: the newest 50, oldest of them first.
C26_SameChatSequence ==
    [][\A u \in UserIds, db \in DbOutcomes :
          (StoreAnswers(db) /\ aiChatsHandler("GET", u, db)) =>
              sent' = <<Success(JsonList(getAiChats(u, DefaultChatsLimit)), 200)>>]_vars

-----------------------------------------------------------------------------
(* Claims about the waveform buffers *)

\* the tick dropped the oldest sample of the buffer, kept the other 49 in
\* their order and appended one new sample at the end
C27_Slid(before, after) ==
    /\ Len(after) = BufferLength
    /\ \A i \in 1..(BufferLength - 1) : after[i] = before[i + 1]
    /\ \A i \in 1..BufferLength : after[BufferLength] # before[i]

\* C27: the alphaWaves and betaWaves buffers each hold 50 samples at the
\* start and after every tick; every tick removes the oldest sample and
\* appends one new sample, the other 49 keeping their order.
C27_SlidingBuffers ==
    /\ Len(eegData.alphaWaves) = BufferLength
    /\ Len(eegData.betaWaves) = BufferLength
    /\ [][/\ C27_Slid(eegData.alphaWaves, eegData'.alphaWaves)
          /\ C27_Slid(eegData.betaWaves, eegData'.betaWaves)]_vars

\* after the last tick of the walk the buffers hold the newest 50 draws
C27_Witness ==
    /\ ticks = MaxTicks
    /\ Len(eegData.alphaWaves) = BufferLength
    /\ eegData.alphaWaves[1] = MaxTicks + 1
    /\ eegData.betaWaves[BufferLength] = BufferLength + MaxTicks

-----------------------------------------------------------------------------
(* Claims about the change of a tick *)

\* the largest change the claim gives each scalar metric
C28_Delta ==
    [heartRate |-> 3, stressLevel |-> 5, sleepQuality |-> 3, neuralActivity |-> 4]

\* a tick can change metric k by this much
C28_Possible(k, change) ==
    ENABLED (FirstTick /\ currentMetrics'[k] = currentMetrics[k] + change)

\* C28: the change a tick applies to a scalar metric, where no clamp cuts
\* it, ranges over the whole interval from -delta to +delta: every change
\* in it is possible, +delta as -delta is, and no other change is.
C28_SymmetricChange ==
    ticks = 0 =>
        \A k \in DOMAIN C28_Delta :
            \A change \in (-C28_Delta[k] - 1)..(C28_Delta[k] + 1) :
                C28_Possible(k, change) <=> change \in (-C28_Delta[k])..C28_Delta[k]

-----------------------------------------------------------------------------
(* Claims about the chat exchange *)

\* the requests that were answered with the assistant's record
C29_Succeeded ==
    {c \in 1..Len(asyncCalls) : asyncCalls[c].pc = "done" /\ asyncCalls[c].response.status = 200}

\* the requests that stored their user message
C29_Stored == {c \in 1..Len(asyncCalls) : asyncCalls[c].body # NoBody}

\* C29: a successful POST /ai-chat has added two chat records for its
\* userId, the user's message (isUser true) and, after it, the assistant's
\* reply (isUser false) with a timestamp not earlier than the message's, and
\* has answered with the reply; this holds for each of two concurrent
\* requests of one user, and no request adds any other record.
C29_ExchangeStored ==
    /\ Len(aiChats) = Cardinality(C29_Stored) + Cardinality(C29_Succeeded)
    /\ \A c \in C29_Succeeded :
            \E i, j \in 1..Len(aiChats) :
                /\ i < j
                /\ aiChats[i] = asyncCalls[c].userChat
                /\ aiChats[i].isUser /\ aiChats[i].userId = asyncCalls[c].body.userId
                /\ aiChats[j] = asyncCalls[c].response.body
                /\ ~aiChats[j].isUser /\ aiChats[j].userId = asyncCalls[c].body.userId
                /\ aiChats[j].timestamp >= aiChats[i].timestamp

\* two requests of one user ran concurrently: both messages were stored
\* before either reply, and the second request was answered first
C29_Witness ==
    /\ Len(asyncCalls) = 2
    /\ C29_Succeeded = {1, 2}
    /\ asyncCalls[1].body.userId = asyncCalls[2].body.userId
    /\ Len(aiChats) = 4
    /\ aiChats[2] = asyncCalls[2].userChat
    /\ aiChats[3] = asyncCalls[2].response.body
    /\ aiChats[4] = asyncCalls[1].response.body
    /\ aiChats[4].timestamp > aiChats[1].timestamp

-----------------------------------------------------------------------------
(* Claims about the credentials of a request *)

\* a request without credentials
C30_Anonymous == [authorization |-> AbsentString, cookie |-> AbsentString]

\* C30: on every record route (list, create, settings, export) a request
\* does exactly what the same request without credentials does, whatever
\* its Authorization header and cookies: the same response and the same
\* writes; so any two requests that differ only in their credentials are
\* served alike.
C30_CredentialsIgnored ==
    [][\A name \in RecordRoutes, credentials \in Credentials \ {C30_Anonymous} :
            \A c \in RouteCases(name) :
                serve(name, WithCredentials(c, credentials), c.ai, c.db)
                    <=> serve(name, WithCredentials(c, C30_Anonymous), c.ai, c.db)]_vars

\* a request that carried no valid token has been answered with the samples
\* of user A, which an earlier request without a valid token had created
C30_Witness ==
    /\ verifyToken(<<"forged">>) = <<>>
    /\ verifyToken(<<TokenNames[1]>>) # <<>>
    /\ Len(healthMetrics) = 1
    /\ authRet = <<>>
    /\ sent = <<Success(JsonList(getHealthMetrics("A", 50)), 200)>>

====
